---- MODULE Spec2Model ----
(***************************************************************************)
(* Ant Colony Optimization path search of static/js/ants.js (the colony    *)
(* version of initAnts, lines 395-1292): graph generation, pheromone       *)
(* matrix, path construction, one colony iteration, and the controller     *)
(* (step / start / pause / reset / newGraph / updateParams).               *)
(*                                                                         *)
(* Numbers.  JavaScript doubles are modelled in fixed point:               *)
(*   - a PRNG draw seed/233280 is kept as its numerator `seed`;            *)
(*   - node coordinates are whole pixels (floor of the double);            *)
(*   - distances are whole pixels (floor of Math.hypot);                   *)
(*   - a pheromone value t is kept as t * TauScale, rounded down;          *)
(*   - rho is kept in hundredths (rho = 0.5 is 50);                        *)
(*   - the floors 1e-10 of the source are the smallest positive            *)
(*     fixed-point value, 1.                                               *)
(***************************************************************************)
EXTENDS Integers, Sequences, FiniteSets, TLC

VARIABLES
  params,             \* ants.js:420  the parameter object
  running,            \* ants.js:414
  isPaused,           \* ants.js:413
  timer,              \* ants.js:415  handle of the interval, or NoTimer
  intervals,          \* the browser's set of active interval handles
  nodes,              \* ants.js:441
  pheromones,         \* ants.js:442
  distances,          \* ants.js:443
  startNode,          \* ants.js:444
  endNode,            \* ants.js:445
  bestPath,           \* ants.js:446
  bestLength,         \* ants.js:447
  currentBestPath,    \* ants.js:448
  currentBestLength,  \* ants.js:449
  iteration,          \* ants.js:450
  prng,               \* ants.js:451  the seed field of the PRNG object
  paths,              \* ants.js:804  the colony's paths of the last step
  lastCall,           \* the handler that ran last, with its argument
  edits               \* number of configuration calls made so far

vars == <<params, running, isPaused, timer, intervals, nodes, pheromones,
          distances, startNode, endNode, bestPath, bestLength,
          currentBestPath, currentBestLength, iteration, prng, paths,
          lastCall, edits>>

-----------------------------------------------------------------------------
(* Bounds of the model *)

MaxNodes == 3          \* largest node count offered to the program
MaxColony == 2         \* largest colony size offered to the program
MaxBudget == 2         \* largest maxIterations offered to the program
MaxEdits == 1          \* configuration calls per behaviour
MaxSeed == 10          \* largest magnitude of the seeds given to new PRNG
MaxDraws == 5          \* calls of random() on one PRNG object

(* Program constants *)

PrngModulus == 233280
PrngIncrement == 49297
Margin == 50
CanvasWidth == 164
CanvasHeight == 164
Infinity == 1000000000
TauMin == 1
DistMin == 1
TauScale == 100
RhoScale == 100
WeightScale == 8192
DefaultSeed == 42

\* null, for a path: no path is empty
Null == << >>

\* null, for the timer handle: the handles of setInterval are positive
NoTimer == 0

\* NaN, for the exponent alpha: the exponents that are numbers are >= 0
NotANumber == -1

-----------------------------------------------------------------------------
(* Arithmetic helpers *)

Max(a, b) == IF a >= b THEN a ELSE b

\* Math.pow for a non-negative integer exponent
RECURSIVE Pow(_, _)
Pow(b, e) == IF e <= 0 THEN 1 ELSE b * Pow(b, e - 1)

\* floor of the square root, for Math.hypot
RECURSIVE sqrtBetween(_, _, _)
sqrtBetween(n, lo, hi) ==
  IF lo >= hi THEN lo
  ELSE LET mid == (lo + hi + 1) \div 2
       IN  IF mid * mid <= n THEN sqrtBetween(n, mid, hi)
           ELSE sqrtBetween(n, lo, mid - 1)

ISqrt(n) == sqrtBetween(n, 0, CanvasWidth + CanvasHeight)

\* JavaScript's % : the result has the sign of the dividend
JsRem(a, m) == IF a >= 0 THEN a % m ELSE 0 - ((0 - a) % m)

\* p1/q1 <= p2/q2 for p1, p2 >= 0 and q1, q2 > 0, without forming the
\* products (they exceed the 32-bit integers of TLC)
RECURSIVE FracLE(_, _, _, _)
FracLE(p1, q1, p2, q2) ==
  LET i1 == p1 \div q1
      i2 == p2 \div q2
      r1 == p1 % q1
      r2 == p2 % q2
  IN  IF i1 # i2 THEN i1 < i2
      ELSE IF r1 = 0 THEN TRUE
      ELSE IF r2 = 0 THEN FALSE
      ELSE FracLE(q2, r2, q1, r1)

-----------------------------------------------------------------------------
(* PRNG *)

\* PRNG.random: this.seed = (this.seed * 9301 + 49297) % 233280.
\* 9301 = 93 * 100 + 1; the product is formed in two parts and reduced, and
\* the remainder is given the sign of the unreduced dividend, as % gives it:
\* the dividend is negative exactly for the seeds below -49297 / 9301.
random(seed) ==
  LET a == IF seed >= 0 THEN seed ELSE 0 - seed
      product == ((a * 93) % PrngModulus) * 100 + a
      d == PrngIncrement - product
  IN  IF seed >= 0
      THEN JsRem(product + PrngIncrement, PrngModulus)
      ELSE IF d > 0 /\ a > PrngIncrement \div (93 * 100 + 1)
      THEN JsRem(d - PrngModulus, PrngModulus)
      ELSE JsRem(d, PrngModulus)

\* the seed after k draws
RECURSIVE Draws(_, _)
Draws(seed, k) == IF k <= 0 THEN seed ELSE Draws(random(seed), k - 1)

\* prng.random() * extent + margin, in whole pixels
Coord(seed, extent) == (seed * extent) \div PrngModulus + Margin

\* dist(a, b) = Math.hypot(a.x - b.x, a.y - b.y)
dist(a, b) == ISqrt((a.x - b.x) * (a.x - b.x) + (a.y - b.y) * (a.y - b.y))

-----------------------------------------------------------------------------
(* The program state as one record, so that a handler is a function from    *)
(* state to state and handlers can call one another as they do in the      *)
(* source.                                                                 *)

cur ==
  [params |-> params, running |-> running, isPaused |-> isPaused,
   timer |-> timer, intervals |-> intervals, nodes |-> nodes,
   pheromones |-> pheromones, distances |-> distances,
   startNode |-> startNode, endNode |-> endNode, bestPath |-> bestPath,
   bestLength |-> bestLength, currentBestPath |-> currentBestPath,
   currentBestLength |-> currentBestLength, iteration |-> iteration,
   prng |-> prng, paths |-> paths]

Indices(s) == 0..(s.params.nodeCount - 1)

-----------------------------------------------------------------------------
(* generateGraph, ants.js:465-518 *)

\* lines 469-478: node i takes draws 2i+1 (x) and 2i+2 (y) of a PRNG
\* re-created from params.seed
placeNodes(p) ==
  [i \in 0..(p.nodeCount - 1) |->
     [x |-> Coord(Draws(p.seed, 2 * i + 1), CanvasWidth - 2 * Margin),
      y |-> Coord(Draws(p.seed, 2 * i + 2), CanvasHeight - 2 * Margin)]]

\* lines 480-491 without the scan: the pair of the previous graph is kept
farthestPairStale(ns, n, i, j, acc) == acc

\* lines 480-491: row-major scan over i < j, strict improvement only;
\* acc starts from maxDistance = 0 and the start/end nodes left by the
\* previous graph
RECURSIVE farthestPair(_, _, _, _, _)
farthestPair(ns, n, i, j, acc) ==
  IF i >= n THEN acc
  ELSE IF j >= n THEN farthestPair(ns, n, i + 1, i + 2, acc)
  ELSE LET d == dist(ns[i], ns[j])
       IN  farthestPair(ns, n, i, j + 1,
             IF d > acc.maxDistance
             THEN [maxDistance |-> d, startNode |-> i, endNode |-> j]
             ELSE acc)

\* lines 494, 497-510 with only the entries i < j written
distanceMatrixUpper(p, ns) ==
  [i \in 0..(p.nodeCount - 1) |->
     [j \in 0..(p.nodeCount - 1) |->
        IF i < j THEN dist(ns[i], ns[j]) ELSE 0]]

\* lines 494, 497-510: zero diagonal, dist elsewhere; the mirrored write of
\* the undirected branch stores the same value, dist being symmetric
distanceMatrix(p, ns) ==
  [i \in 0..(p.nodeCount - 1) |->
     [j \in 0..(p.nodeCount - 1) |->
        IF i = j THEN 0 ELSE dist(ns[i], ns[j])]]

\* lines 495, 506: every entry, the diagonal included, is tau0
initialPheromones(p) ==
  [i \in 0..(p.nodeCount - 1) |-> [j \in 0..(p.nodeCount - 1) |-> p.tau0]]

\* lines 512-517: without the assignment iteration = 0 of line 517
clearResultsKeepingCount(s) ==
  [s EXCEPT !.bestPath = Null,
            !.bestLength = Infinity,
            !.currentBestPath = Null,
            !.currentBestLength = Infinity]

\* lines 512-517 without the assignments of lines 512-513
clearResultsKeepingBest(s) ==
  [s EXCEPT !.currentBestPath = Null,
            !.currentBestLength = Infinity,
            !.iteration = 0]

\* lines 512-517
clearResults(s) ==
  [s EXCEPT !.bestPath = Null,
            !.bestLength = Infinity,
            !.currentBestPath = Null,
            !.currentBestLength = Infinity,
            !.iteration = 0]

\* generateGraph without the assignment prng = new PRNG(params.seed) of
\* line 467 reaching the PRNG of the walks
generateGraphKeepingPrng(s) ==
  LET p == s.params
      ns == placeNodes(p)
      far == farthestPair(ns, p.nodeCount, 0, 1,
               [maxDistance |-> 0, startNode |-> s.startNode,
                endNode |-> s.endNode])
  IN  clearResults(
        [s EXCEPT !.nodes = ns,
                  !.startNode = far.startNode,
                  !.endNode = far.endNode,
                  !.distances = distanceMatrix(p, ns),
                  !.pheromones = initialPheromones(p)])

generateGraph(s) ==
  LET p == s.params
      ns == placeNodes(p)
      far == farthestPair(ns, p.nodeCount, 0, 1,
               [maxDistance |-> 0, startNode |-> s.startNode,
                endNode |-> s.endNode])
  IN  clearResults(
        [s EXCEPT !.prng = Draws(p.seed, 2 * Max(p.nodeCount, 0)),
                  !.nodes = ns,
                  !.startNode = far.startNode,
                  !.endNode = far.endNode,
                  !.distances = distanceMatrix(p, ns),
                  !.pheromones = initialPheromones(p)])

-----------------------------------------------------------------------------
(* Timer control, ants.js:880-901 *)

\* setInterval hands out a handle that is not active
newHandle(s) == CHOOSE h \in 1..(Cardinality(s.intervals) + 1) : h \notin s.intervals

\* start without the test of running: a second interval is created
startUnguarded(s) ==
  LET h == newHandle(s)
  IN  [s EXCEPT !.running = TRUE, !.isPaused = FALSE, !.timer = h,
                !.intervals = s.intervals \cup {h}]

\* start, lines 880-889
start(s) ==
  IF ~s.running
  THEN LET h == newHandle(s)
       IN  [s EXCEPT !.running = TRUE, !.isPaused = FALSE, !.timer = h,
                     !.intervals = s.intervals \cup {h}]
  ELSE s

\* pause without clearInterval: the interval stays active
pauseKeepingInterval(s) ==
  [s EXCEPT !.running = FALSE, !.isPaused = TRUE, !.timer = NoTimer]

\* lines 891-901 without clearInterval(timer); timer = null
pauseLeavingTimer(s) == [s EXCEPT !.running = FALSE, !.isPaused = TRUE]

\* pause, lines 891-901
pause(s) ==
  LET t == [s EXCEPT !.running = FALSE, !.isPaused = TRUE]
  IN  IF s.timer # NoTimer
      THEN [t EXCEPT !.intervals = s.intervals \ {s.timer}, !.timer = NoTimer]
      ELSE t

-----------------------------------------------------------------------------
(* Path construction, ants.js:726-794 *)

\* lines 739-743: tau^alpha * eta^beta for the move current -> j.
\* Math.pow(x, NaN) is NaN for every x, and so is its product with eta;
\* isFinite(NaN) is false, so line 743 rejects the candidate: weight 0 here,
\* which the test w > 0 of candidates rejects.
weight(s, current, j) ==
  IF s.params.alpha = NotANumber
  THEN 0
  ELSE (Pow(Max(s.pheromones[current][j], TauMin), s.params.alpha) * WeightScale)
         \div Pow(Max(s.distances[current][j], DistMin), s.params.beta)

\* lines 737-748 without the test !visited.has(j)
RECURSIVE candidatesRevisiting(_, _, _, _)
candidatesRevisiting(s, path, current, j) ==
  IF j >= s.params.nodeCount THEN << >>
  ELSE LET rest == candidatesRevisiting(s, path, current, j + 1)
           w == weight(s, current, j)
       IN  IF w > 0
           THEN <<[node |-> j, probability |-> w]>> \o rest
           ELSE rest

\* lines 737-748: the unvisited nodes of positive weight, in index order
RECURSIVE candidates(_, _, _, _)
candidates(s, path, current, j) ==
  IF j >= s.params.nodeCount THEN << >>
  ELSE LET rest == candidates(s, path, current, j + 1)
       IN  IF \E k \in 1..Len(path) : path[k] = j
           THEN rest
           ELSE LET w == weight(s, current, j)
                IN  IF w > 0
                    THEN <<[node |-> j, probability |-> w]>> \o rest
                    ELSE rest

RECURSIVE totalOf(_, _)
totalOf(options, k) ==
  IF k > Len(options) THEN 0
  ELSE options[k].probability + totalOf(options, k + 1)

\* lines 753-765: the first option whose accumulated weight reaches
\* random * totalProbability, the last option if none does
RECURSIVE roulette(_, _, _, _, _)
roulette(options, k, accumulated, draw, total) ==
  IF k > Len(options) THEN options[Len(options)].node
  ELSE LET acc == accumulated + options[k].probability
       IN  IF FracLE(draw, PrngModulus, acc, total)
           THEN options[k].node
           ELSE roulette(options, k + 1, acc, draw, total)

\* lines 731-771 with the break of line 750 replaced by a throw
RECURSIVE walkAborting(_, _, _, _)
walkAborting(s, path, current, seed) ==
  IF current = s.endNode \/ Len(path) >= s.params.nodeCount
  THEN [path |-> path, seed |-> seed, threw |-> FALSE]
  ELSE IF current \notin Indices(s)
  THEN [path |-> path, seed |-> seed, threw |-> TRUE]
  ELSE LET options == candidates(s, path, current, 0)
       IN  IF Len(options) = 0
           THEN [path |-> path, seed |-> seed, threw |-> TRUE]
           ELSE LET draw == random(seed)
                    chosen == roulette(options, 1, 0, draw, totalOf(options, 1))
                IN  walkAborting(s, Append(path, chosen), chosen, draw)

\* constructPath, lines 726-773.  The result carries the PRNG seed after the
\* walk, and threw: the read of pheromones[current][j] for a current that
\* is no row of the matrix raises a TypeError.
RECURSIVE walk(_, _, _, _)
walk(s, path, current, seed) ==
  IF current = s.endNode \/ Len(path) >= s.params.nodeCount
  THEN [path |-> path, seed |-> seed, threw |-> FALSE]
  ELSE IF current \notin Indices(s)
  THEN [path |-> path, seed |-> seed, threw |-> TRUE]
  ELSE LET options == candidates(s, path, current, 0)
       IN  IF Len(options) = 0
           THEN [path |-> path, seed |-> seed, threw |-> FALSE]
           ELSE LET draw == random(seed)
                    chosen == roulette(options, 1, 0, draw, totalOf(options, 1))
                IN  walk(s, Append(path, chosen), chosen, draw)

constructPath(s, fromNode, seed) == walk(s, <<fromNode>>, fromNode, seed)

\* calculatePathLength, lines 775-784
RECURSIVE sumEdges(_, _, _)
sumEdges(s, path, i) ==
  IF i >= Len(path) THEN 0
  ELSE s.distances[path[i]][path[i + 1]] + sumEdges(s, path, i + 1)

\* lines 775-784 without the test of line 776: the empty sum
calculatePathLengthZero(s, path) == sumEdges(s, path, 1)

calculatePathLength(s, path) ==
  IF Len(path) < 2 THEN Infinity ELSE sumEdges(s, path, 1)

\* getStartingNode, lines 786-794; floor(prng.random() * nodeCount)
getStartingNode(s, seed) ==
  IF s.params.startDist = "uniform"
  THEN LET draw == random(seed)
       IN  [node |-> (draw * s.params.nodeCount) \div PrngModulus, seed |-> draw]
  ELSE [node |-> s.startNode, seed |-> seed]

-----------------------------------------------------------------------------
(* One colony iteration: step, ants.js:796-878 *)

\* lines 804-815: one start node and one path per ant, drawn in turn from
\* the one PRNG; a TypeError in constructPath ends the loop
RECURSIVE colony(_, _, _, _)
colony(s, ant, seed, built) ==
  IF ant >= s.params.colonySize
  THEN [paths |-> built, seed |-> seed, threw |-> FALSE]
  ELSE LET from == getStartingNode(s, seed)
           r == constructPath(s, from.node, from.seed)
       IN  IF r.threw
           THEN [paths |-> built, seed |-> r.seed, threw |-> TRUE]
           ELSE colony(s, ant + 1, r.seed, Append(built, r.path))

\* a path counts when its last node is the end node
reachedEnd(s, path) == path[Len(path)] = s.endNode

\* lines 817-830: the first shortest path among those that reached the end;
\* idx = 0 stands for iterationBestIdx = -1
RECURSIVE iterationBest(_, _, _, _)
iterationBest(s, ps, i, acc) ==
  IF i > Len(ps) THEN acc
  ELSE LET length == calculatePathLength(s, ps[i])
       IN  iterationBest(s, ps, i + 1,
             IF reachedEnd(s, ps[i]) /\ length < acc.length
             THEN [idx |-> i, length |-> length]
             ELSE acc)

\* lines 832-841 without the test iterationBestLength < bestLength
recordBestAlways(s, ps) ==
  LET best == iterationBest(s, ps, 1, [idx |-> 0, length |-> Infinity])
  IN  IF best.idx # 0
      THEN [s EXCEPT !.currentBestPath = ps[best.idx],
                     !.currentBestLength = best.length,
                     !.bestLength = best.length,
                     !.bestPath = ps[best.idx]]
      ELSE s

\* lines 832-841
recordBest(s, ps) ==
  LET best == iterationBest(s, ps, 1, [idx |-> 0, length |-> Infinity])
  IN  IF best.idx # 0
      THEN LET t == [s EXCEPT !.currentBestPath = ps[best.idx],
                              !.currentBestLength = best.length]
           IN  IF best.length < s.bestLength
               THEN [t EXCEPT !.bestLength = best.length,
                              !.bestPath = ps[best.idx]]
               ELSE t
      ELSE s

\* line 846 without the floor of lines 847-849
evaporatedUnfloored(tau, rho) == (tau * (RhoScale - rho)) \div RhoScale

\* lines 843-851: tau *= (1 - rho), floored at 1e-10
evaporated(tau, rho) ==
  LET v == (tau * (RhoScale - rho)) \div RhoScale
  IN  IF v < TauMin THEN TauMin ELSE v

evaporate(s) ==
  [s EXCEPT !.pheromones =
     [i \in Indices(s) |-> [j \in Indices(s) |->
        evaporated(s.pheromones[i][j], s.params.rho)]]]

\* lines 862-871 without the test of graphType: every deposit is mirrored
RECURSIVE depositPathMirroring(_, _, _, _, _)
depositPathMirroring(ph, path, i, deltaTau, mirrored) ==
  IF i >= Len(path) THEN ph
  ELSE LET from == path[i]
           to == path[i + 1]
           one == [ph EXCEPT ![from][to] = @ + deltaTau]
           two == [one EXCEPT ![to][from] = @ + deltaTau]
       IN  depositPathMirroring(two, path, i + 1, deltaTau, mirrored)

\* lines 862-871: deltaTau on every edge of the path, mirrored when the
\* graph is undirected
RECURSIVE depositPath(_, _, _, _, _)
depositPath(ph, path, i, deltaTau, mirrored) ==
  IF i >= Len(path) THEN ph
  ELSE LET from == path[i]
           to == path[i + 1]
           one == [ph EXCEPT ![from][to] = @ + deltaTau]
           two == IF mirrored
                  THEN [one EXCEPT ![to][from] = @ + deltaTau]
                  ELSE one
       IN  depositPath(two, path, i + 1, deltaTau, mirrored)

\* line 859 with a guard no ant passes
depositsNone(s, path) == FALSE

\* line 859: the guard of a deposit
deposits(s, path) ==
  LET pathLength == calculatePathLength(s, path)
  IN  reachedEnd(s, path) /\ pathLength < Infinity /\ pathLength > 0

\* line 860: deltaTau = Q / pathLength
deltaTauOf(s, path) == (s.params.Q * TauScale) \div calculatePathLength(s, path)

\* lines 853-873: the ants in colony order
RECURSIVE depositAll(_, _, _, _)
depositAll(s, ps, ant, ph) ==
  IF ant > Len(ps) THEN ph
  ELSE depositAll(s, ps, ant + 1,
         IF deposits(s, ps[ant])
         THEN depositPath(ph, ps[ant], 1, deltaTauOf(s, ps[ant]),
                          s.params.graphType = "undirected")
         ELSE ph)

\* lines 804-875 with the counter advanced only by an iteration in which an
\* ant deposited
runIterationCountingSuccess(s) ==
  LET c == colony(s, 0, s.prng, << >>)
  IN  IF c.threw
      THEN [s EXCEPT !.prng = c.seed]
      ELSE LET a == recordBest([s EXCEPT !.prng = c.seed], c.paths)
               b == evaporate(a)
           IN  [b EXCEPT !.pheromones = depositAll(b, c.paths, 1, b.pheromones),
                         !.iteration =
                            IF \E k \in 1..Len(c.paths) : deposits(s, c.paths[k])
                            THEN s.iteration + 1 ELSE s.iteration,
                         !.paths = c.paths]

\* lines 804-875 with the deposit loop moved before the evaporation loop
runIterationDepositingFirst(s) ==
  LET c == colony(s, 0, s.prng, << >>)
  IN  IF c.threw
      THEN [s EXCEPT !.prng = c.seed]
      ELSE LET a == recordBest([s EXCEPT !.prng = c.seed], c.paths)
               b == [a EXCEPT !.pheromones = depositAll(a, c.paths, 1, a.pheromones)]
           IN  [evaporate(b) EXCEPT !.iteration = s.iteration + 1,
                                    !.paths = c.paths]

\* lines 804-875, one iteration on a state within its budget
runIteration(s) ==
  LET c == colony(s, 0, s.prng, << >>)
  IN  IF c.threw
      THEN [s EXCEPT !.prng = c.seed]
      ELSE LET a == recordBest([s EXCEPT !.prng = c.seed], c.paths)
               b == evaporate(a)
           IN  [b EXCEPT !.pheromones = depositAll(b, c.paths, 1, b.pheromones),
                         !.iteration = s.iteration + 1,
                         !.paths = c.paths]

\* step without the budget test of lines 797-802
stepWithoutBudget(s) == runIteration(s)

\* step with the test of line 797 as iteration > params.maxIterations
stepBudgetOffByOne(s) ==
  IF s.iteration > s.params.maxIterations
  THEN pause(s)
  ELSE runIteration(s)

\* step without the call of pause() of line 800
stepStalling(s) ==
  IF s.iteration >= s.params.maxIterations
  THEN s
  ELSE runIteration(s)

\* step, lines 796-878
step(s) ==
  IF s.iteration >= s.params.maxIterations
  THEN pause(s)
  ELSE runIteration(s)

-----------------------------------------------------------------------------
(* reset, newGraph, updateNodeCount, updateParams, ants.js:903-965 *)

reset(s) == generateGraph(pause(s))

\* newSeed is generateRandomSeed(), Math.floor(Math.random() * 10000)
newGraph(s, newSeed) ==
  LET t == pause(s)
  IN  generateGraph([t EXCEPT !.params.seed = newSeed])

updateNodeCount(s, n) == generateGraph([s EXCEPT !.params.nodeCount = n])

Has(newParams, key) == key \in DOMAIN newParams

\* lines 949-959 without the test i !== j
reinitPheromonesWithDiagonal(s) ==
  [s EXCEPT !.pheromones =
     [i \in Indices(s) |-> [j \in Indices(s) |-> s.params.tau0]]]

\* lines 949-959: every entry off the diagonal becomes params.tau0
reinitPheromones(s) ==
  [s EXCEPT !.pheromones =
     [i \in Indices(s) |-> [j \in Indices(s) |->
        IF i # j THEN s.params.tau0 ELSE s.pheromones[i][j]]]]

\* lines 961-964
restartTimer(s, newParams) ==
  IF Has(newParams, "speed") /\ s.running THEN start(pause(s)) ELSE s

\* updateParams that regenerates the graph whatever the key
updateParamsRegenerating(s, newParams) ==
  generateGraph([s EXCEPT !.params = newParams @@ s.params])

\* Object.assign(params, newParams) is newParams @@ params
updateParams(s, newParams) ==
  LET t == [s EXCEPT !.params = newParams @@ s.params]
  IN  IF Has(newParams, "nodeCount")
      THEN updateNodeCount(t, newParams.nodeCount)
      ELSE IF Has(newParams, "seed")
      THEN generateGraph(t)
      ELSE restartTimer(IF Has(newParams, "tau0") THEN reinitPheromones(t) ELSE t,
                        newParams)

\* graphTypeBtn click, lines 1055-1061
toggleGraphType(s) ==
  generateGraph([s EXCEPT !.params.graphType =
     IF s.params.graphType = "undirected" THEN "directed" ELSE "undirected"])

\* startDistBtn click, lines 1067-1070
toggleStartDist(s) ==
  [s EXCEPT !.params.startDist =
     IF s.params.startDist = "uniform" THEN "fixed" ELSE "uniform"]

-----------------------------------------------------------------------------
(* Inputs offered to the program.  Values outside the documented ranges    *)
(* (nodeCount 1, colonySize 0, rho 1.5, tau0 0) are offered too: nothing   *)
(* in the source keeps a caller from passing them.  The initial            *)
(* configuration is that of initialParams; the updates offer the other     *)
(* values.                                                                 *)

NodeCountChoices == 1..MaxNodes
ColonySizeChoices == 0..(MaxColony - 1)
BudgetChoices == 1..(MaxBudget - 1)
AlphaChoices == {0, NotANumber}
BetaChoices == {1}
RhoChoices == {100, 150}
QChoices == {2}
Tau0Choices == {0, 2 * TauScale}
GraphTypeChoices == {"undirected", "directed"}
StartDistChoices == {"fixed"}
SeedChoices == {12}
SpeedChoices == {500}

\* the partial configurations passed to updateParams: one key each, as the
\* slider bindings of lines 1136-1145 pass them
ParamUpdates ==
  {[nodeCount |-> v] : v \in {1, MaxNodes}} \cup
  {[colonySize |-> v] : v \in ColonySizeChoices} \cup
  {[maxIterations |-> v] : v \in BudgetChoices} \cup
  {[alpha |-> v] : v \in AlphaChoices} \cup
  {[beta |-> v] : v \in BetaChoices} \cup
  {[rho |-> v] : v \in RhoChoices} \cup
  {[Q |-> v] : v \in QChoices} \cup
  {[tau0 |-> v] : v \in Tau0Choices} \cup
  {[graphType |-> v] : v \in GraphTypeChoices} \cup
  {[startDist |-> v] : v \in StartDistChoices} \cup
  {[seed |-> v] : v \in SeedChoices} \cup
  {[speed |-> v] : v \in SpeedChoices}

\* params, lines 420-438, for options that give nodeCount, colonySize and
\* maxIterations and leave the other keys to their defaults
initialParams(n, m, budget) ==
  [nodeCount |-> n, alpha |-> 1, beta |-> 2, rho |-> 50, Q |-> 1,
   colonySize |-> m, maxIterations |-> budget, tau0 |-> TauScale,
   graphType |-> "undirected", startDist |-> "uniform",
   seed |-> DefaultSeed, speed |-> 1000]

\* the closure variables of initAnts as declared, lines 413-451
declared(p) ==
  [params |-> p, running |-> FALSE, isPaused |-> FALSE, timer |-> NoTimer,
   intervals |-> {}, nodes |-> << >>, pheromones |-> << >>,
   distances |-> << >>, startNode |-> 0, endNode |-> 1, bestPath |-> Null,
   bestLength |-> Infinity, currentBestPath |-> Null,
   currentBestLength |-> Infinity, iteration |-> 0, prng |-> p.seed,
   paths |-> << >>]

-----------------------------------------------------------------------------
(* Actions *)

\* what lastCall keeps of the state the handler was called in
Before ==
  [running |-> running, isPaused |-> isPaused, iteration |-> iteration,
   graphType |-> params.graphType, pheromones |-> pheromones,
   bestPath |-> bestPath, bestLength |-> bestLength, prng |-> prng]

NoArg == << >>

Becomes(s, op, arg) ==
  /\ params' = s.params
  /\ running' = s.running
  /\ isPaused' = s.isPaused
  /\ timer' = s.timer
  /\ intervals' = s.intervals
  /\ nodes' = s.nodes
  /\ pheromones' = s.pheromones
  /\ distances' = s.distances
  /\ startNode' = s.startNode
  /\ endNode' = s.endNode
  /\ bestPath' = s.bestPath
  /\ bestLength' = s.bestLength
  /\ currentBestPath' = s.currentBestPath
  /\ currentBestLength' = s.currentBestLength
  /\ iteration' = s.iteration
  /\ prng' = s.prng
  /\ paths' = s.paths
  /\ lastCall' = [op |-> op, arg |-> arg, before |-> Before]

\* initAnts(canvas, options) followed by createUI(), whose last act is
\* generateGraph() (lines 1147-1150); options gives nodeCount and graphType
Init ==
  \E n \in 2..MaxNodes, g \in GraphTypeChoices :
    LET s == generateGraph(declared([initialParams(n, MaxColony, MaxBudget)
                                       EXCEPT !.graphType = g]))
    IN  /\ params = s.params
        /\ running = s.running
        /\ isPaused = s.isPaused
        /\ timer = s.timer
        /\ intervals = s.intervals
        /\ nodes = s.nodes
        /\ pheromones = s.pheromones
        /\ distances = s.distances
        /\ startNode = s.startNode
        /\ endNode = s.endNode
        /\ bestPath = s.bestPath
        /\ bestLength = s.bestLength
        /\ currentBestPath = s.currentBestPath
        /\ currentBestLength = s.currentBestLength
        /\ iteration = s.iteration
        /\ prng = s.prng
        /\ paths = s.paths
        /\ lastCall = [op |-> "createUI", arg |-> NoArg,
                        before |-> [running |-> FALSE, isPaused |-> FALSE,
                                    iteration |-> 0,
                                    graphType |-> s.params.graphType,
                                    pheromones |-> << >>,
                                    bestPath |-> Null,
                                    bestLength |-> Infinity,
                                    prng |-> s.params.seed]]
        /\ edits = 0

\* step() called by the step button (line 1035) or through the returned API
CallStep ==
  /\ Becomes(step(cur), "step", NoArg)
  /\ UNCHANGED edits

\* step() called by the interval timer of line 884
TimerStep ==
  /\ intervals # {}
  /\ Becomes(step(cur), "timerStep", NoArg)
  /\ UNCHANGED edits

CallStart ==
  /\ Becomes(start(cur), "start", NoArg)
  /\ UNCHANGED edits

CallPause ==
  /\ Becomes(pause(cur), "pause", NoArg)
  /\ UNCHANGED edits

CallReset ==
  /\ Becomes(reset(cur), "reset", NoArg)
  /\ UNCHANGED edits

CallNewGraph ==
  /\ edits < MaxEdits
  /\ \E newSeed \in SeedChoices :
       Becomes(newGraph(cur, newSeed), "newGraph", [seed |-> newSeed])
  /\ edits' = edits + 1

CallUpdateNodeCount ==
  /\ edits < MaxEdits
  /\ \E n \in NodeCountChoices :
       Becomes(updateNodeCount(cur, n), "updateNodeCount", [nodeCount |-> n])
  /\ edits' = edits + 1

CallUpdateParams ==
  /\ edits < MaxEdits
  /\ \E newParams \in ParamUpdates :
       Becomes(updateParams(cur, newParams), "updateParams", newParams)
  /\ edits' = edits + 1

ClickGraphTypeBtn ==
  /\ edits < MaxEdits
  /\ Becomes(toggleGraphType(cur), "graphTypeBtn", NoArg)
  /\ edits' = edits + 1

ClickStartDistBtn ==
  /\ edits < MaxEdits
  /\ Becomes(toggleStartDist(cur), "startDistBtn", NoArg)
  /\ edits' = edits + 1

Next ==
  \/ CallStep
  \/ TimerStep
  \/ CallStart
  \/ CallPause
  \/ CallReset
  \/ CallNewGraph
  \/ CallUpdateNodeCount
  \/ CallUpdateParams
  \/ ClickGraphTypeBtn
  \/ ClickStartDistBtn

Spec == Init /\ [][Next]_vars

-----------------------------------------------------------------------------
(* The random source alone, ants.js:401-410: new PRNG(seed) for the seeds  *)
(* a configuration can carry, and calls of random().  Nothing in the       *)
(* source restricts options.seed (line 432) or the seed passed to          *)
(* updateParams (the number input of line 1145 passes parseInt of what was *)
(* typed), so negative seeds are offered.  lastCall.arg counts the draws   *)
(* made since the source was created.                                      *)

PrngSeedChoices == (0 - MaxSeed)..MaxSeed

\* lines 432 and 451: params.seed taken from options, prng = new PRNG(seed)
PrngInit ==
  \E seed \in PrngSeedChoices :
    LET s == declared([initialParams(2, MaxColony, MaxBudget)
                        EXCEPT !.seed = seed])
    IN  /\ params = s.params
        /\ running = s.running
        /\ isPaused = s.isPaused
        /\ timer = s.timer
        /\ intervals = s.intervals
        /\ nodes = s.nodes
        /\ pheromones = s.pheromones
        /\ distances = s.distances
        /\ startNode = s.startNode
        /\ endNode = s.endNode
        /\ bestPath = s.bestPath
        /\ bestLength = s.bestLength
        /\ currentBestPath = s.currentBestPath
        /\ currentBestLength = s.currentBestLength
        /\ iteration = s.iteration
        /\ prng = s.prng
        /\ paths = s.paths
        /\ lastCall = [op |-> "newPRNG", arg |-> 0,
                        before |-> [running |-> FALSE, isPaused |-> FALSE,
                                    iteration |-> 0,
                                    graphType |-> s.params.graphType,
                                    pheromones |-> << >>,
                                    bestPath |-> Null,
                                    bestLength |-> Infinity,
                                    prng |-> s.params.seed]]
        /\ edits = 0

\* prng.random(), lines 406-409
PrngRandom ==
  /\ lastCall.arg < MaxDraws
  /\ Becomes([cur EXCEPT !.prng = random(prng)], "random", lastCall.arg + 1)
  /\ UNCHANGED edits

\* prng = new PRNG(params.seed), line 467
PrngRecreate ==
  /\ lastCall.arg > 0
  /\ Becomes([cur EXCEPT !.prng = params.seed], "newPRNG", 0)
  /\ UNCHANGED edits

PrngNext ==
  \/ PrngRandom
  \/ PrngRecreate

PrngSpec == PrngInit /\ [][PrngNext]_vars

-----------------------------------------------------------------------------
(* The timer-driven run left alone: any call while the controller is not   *)
(* running, and from start() on only the calls of step() by the interval   *)
(* timer of line 884.  An active interval timer calls step() again and     *)
(* again until it is cleared, which is weak fairness of TimerStep.  It is  *)
(* stated on TimerFires, the part of TimerStep that records the call:      *)
(* under Unattended the steps that satisfy TimerFires are those of         *)
(* TimerStep, both are enabled exactly when an interval is active, and a   *)
(* call of step() by the timer always changes lastCall, the counter or     *)
(* running having changed since the call before.                           *)

Unattended ==
  \/ TimerStep
  \/ ~running /\ CallStep
  \/ ~running /\ CallStart
  \/ ~running /\ CallPause
  \/ ~running /\ CallReset
  \/ ~running /\ CallNewGraph
  \/ ~running /\ CallUpdateNodeCount
  \/ ~running /\ CallUpdateParams
  \/ ~running /\ ClickGraphTypeBtn
  \/ ~running /\ ClickStartDistBtn

\* the interval timer of line 884 calls step()
TimerFires ==
  /\ intervals # {}
  /\ lastCall' = [op |-> "timerStep", arg |-> NoArg, before |-> Before]

LiveSpec == Init /\ [][Unattended]_vars /\ WF_lastCall(TimerFires)

-----------------------------------------------------------------------------
(* Vocabulary of the properties *)

StepOps == {"step", "timerStep"}

IsUpdate(call, key) == call.op = "updateParams" /\ Has(call.arg, key)

\* the keys updateParams is said to apply without touching the run
ImmediateKeys == {"alpha", "beta", "rho", "Q", "colonySize", "startDist"}

\* the configuration ranges of the parameter comments, lines 422-432
ValidConfig(p) ==
  /\ p.nodeCount >= 2
  /\ p.colonySize >= 1
  /\ p.rho > 0 /\ p.rho <= RhoScale
  /\ p.tau0 > 0

BestCleared ==
  /\ bestPath = Null /\ bestLength = Infinity
  /\ currentBestPath = Null /\ currentBestLength = Infinity

OffDiagonalAt(ph, v) ==
  \A i \in DOMAIN ph : \A j \in DOMAIN ph[i] : i # j => ph[i][j] = v

AllAt(ph, v) == \A i \in DOMAIN ph : \A j \in DOMAIN ph[i] : ph[i][j] = v

\* the last call was a step() that passed the budget test of line 797
RanIteration ==
  /\ lastCall.op \in StepOps
  /\ lastCall.before.iteration < params.maxIterations

\* the ant of this path walked to the end node
Walked(path) == Len(path) >= 2 /\ path[Len(path)] = endNode

\* the matrix ph after one evaporation at rate rho
EvaporatedFrom(ph, rho) ==
  [i \in DOMAIN ph |-> [j \in DOMAIN ph[i] |-> evaporated(ph[i][j], rho)]]

graphVars == <<nodes, distances, startNode, endNode>>
bestVars == <<bestPath, bestLength, currentBestPath, currentBestLength>>
timerVars == <<running, isPaused, timer, intervals>>

-----------------------------------------------------------------------------
(* C1 *)

\* C1, as claimed: every call of step(), whatever the controller state,
\* advances the iteration counter by exactly one and leaves running and
\* isPaused as they were.
C1_StepAlwaysIterates ==
  [][lastCall'.op \in StepOps =>
       /\ iteration' = iteration + 1
       /\ running' = running
       /\ isPaused' = isPaused]_vars

\* C1, amended: a call of step() with iteration < maxIterations runs exactly
\* one colony iteration (colonySize paths, one evaporation of every diagonal
\* entry, counter + 1) and leaves running, isPaused and the timer alone; a
\* call with iteration >= maxIterations runs no iteration and pauses the
\* controller.
C1_StepWithinBudget ==
  [][lastCall'.op \in StepOps =>
       IF iteration < params.maxIterations
       THEN /\ iteration' = iteration + 1
            /\ Len(paths') = params.colonySize
            /\ \A i \in DOMAIN pheromones :
                 pheromones'[i][i] = evaporated(pheromones[i][i], params.rho)
            /\ UNCHANGED timerVars
       ELSE /\ iteration' = iteration
            /\ ~running' /\ isPaused' /\ timer' = NoTimer /\ intervals' = {}
            /\ UNCHANGED <<pheromones, paths>>
            /\ UNCHANGED bestVars]_vars

\* a manual step taken while the timer runs, within the budget
C1_Witness ==
  /\ lastCall.op = "step"
  /\ lastCall.before.running
  /\ running
  /\ iteration = lastCall.before.iteration + 1

-----------------------------------------------------------------------------
(* C2 *)

\* C2: start() while running, and pause() while paused, change no variable
\* of the controller or the engine and create or clear no timer.
C2_RedundantStartPauseNoOp ==
  [][(\/ lastCall'.op = "start" /\ running
      \/ lastCall'.op = "pause" /\ ~running /\ isPaused) =>
       /\ UNCHANGED timerVars
       /\ UNCHANGED graphVars
       /\ UNCHANGED bestVars
       /\ UNCHANGED <<params, pheromones, iteration, prng>>]_vars

\* start() was called on a running controller that had iterated
C2_Witness ==
  /\ lastCall.op = "start"
  /\ lastCall.before.running
  /\ lastCall.before.iteration > 0
  /\ Cardinality(intervals) = 1

-----------------------------------------------------------------------------
(* C3 *)

\* C3: after reset() or newGraph() the iteration counter is 0, the global
\* and iteration best are cleared, and every pheromone entry i # j is tau0.
C3_ResetClears ==
  lastCall.op \in {"reset", "newGraph"} =>
    /\ iteration = 0
    /\ BestCleared
    /\ OffDiagonalAt(pheromones, params.tau0)

\* reset() was called on a running controller that had iterated
C3_Witness ==
  /\ lastCall.op = "reset"
  /\ lastCall.before.iteration > 0
  /\ lastCall.before.running

-----------------------------------------------------------------------------
(* C4 *)

Regenerated(call) ==
  \/ call.op \in {"reset", "newGraph", "updateNodeCount", "graphTypeBtn"}
  \/ IsUpdate(call, "nodeCount")
  \/ IsUpdate(call, "seed")

\* C4, as claimed: every regeneration of the graph leaves the controller
\* not running, with no interval timer active.
C4_RegenerationIdles ==
  Regenerated(lastCall) => ~running /\ intervals = {}

-----------------------------------------------------------------------------
(* C5 *)

\* C5, as claimed: after updateParams({tau0}) every pheromone entry i # j is the
\* new tau0, the iteration counter is 0 and the best-path state is cleared.
C5_Tau0Resets ==
  IsUpdate(lastCall, "tau0") =>
    /\ OffDiagonalAt(pheromones, params.tau0)
    /\ iteration = 0
    /\ BestCleared

\* C5, amended: updateParams({tau0}) sets every pheromone entry i # j to the
\* new tau0 and leaves the diagonal entries, the iteration counter, the
\* best-path state, the graph and the timer as they were.
C5_Tau0ReinitialisesOnly ==
  [][IsUpdate(lastCall', "tau0") =>
       /\ params'.tau0 = lastCall'.arg.tau0
       /\ OffDiagonalAt(pheromones', lastCall'.arg.tau0)
       /\ \A i \in DOMAIN pheromones : pheromones'[i][i] = pheromones[i][i]
       /\ UNCHANGED iteration
       /\ UNCHANGED bestVars
       /\ UNCHANGED graphVars
       /\ UNCHANGED timerVars]_vars

\* tau0 was changed after an iteration that found a path
C5_Witness ==
  /\ IsUpdate(lastCall, "tau0")
  /\ lastCall.arg.tau0 = 2 * TauScale
  /\ iteration > 0
  /\ bestPath # Null

-----------------------------------------------------------------------------
(* C6 *)

DirectionalityChanged(call) ==
  /\ call.op = "graphTypeBtn" \/ IsUpdate(call, "graphType")
  /\ call.before.graphType # params.graphType

\* C6, as claimed: after a change of graph directionality, by the button or
\* by updateParams({graphType}), the pheromone field is at tau0 and the
\* iteration counter and the best-path state are zeroed.
C6_DirectionalityResets ==
  DirectionalityChanged(lastCall) =>
    /\ OffDiagonalAt(pheromones, params.tau0)
    /\ iteration = 0
    /\ BestCleared

-----------------------------------------------------------------------------
(* C7 *)

Immediate(call) ==
  \/ call.op = "startDistBtn"
  \/ call.op = "updateParams" /\ DOMAIN call.arg \subseteq ImmediateKeys

\* C7: an update of alpha, beta, rho, Q, colonySize or startDist stores the
\* new value and leaves the graph, the pheromone matrix, the counter, the
\* best-path state, the PRNG and the timer as they were; the step that
\* follows builds params.colonySize paths and evaporates with params.rho.
C7_ImmediateParams ==
  [][/\ Immediate(lastCall') =>
          /\ UNCHANGED graphVars
          /\ UNCHANGED bestVars
          /\ UNCHANGED timerVars
          /\ UNCHANGED <<pheromones, iteration, prng>>
          /\ lastCall'.op = "updateParams" =>
               params' = lastCall'.arg @@ params
          /\ lastCall'.op = "startDistBtn" =>
               /\ params'.startDist # params.startDist
               /\ [params' EXCEPT !.startDist = params.startDist] = params
     /\ (lastCall'.op \in StepOps /\ iteration < params.maxIterations) =>
          /\ Len(paths') = params.colonySize
          /\ \A i \in DOMAIN pheromones :
               pheromones'[i][i] = evaporated(pheromones[i][i], params.rho)]_vars

\* a step taken after the colony size was lowered built that many paths
C7_Witness ==
  /\ lastCall.op \in StepOps
  /\ edits = 1
  /\ params.colonySize = 1
  /\ Len(paths) = 1
  /\ iteration = 2

-----------------------------------------------------------------------------
(* C8 *)

\* C8: pause() leaves the controller not running with no interval active;
\* a timer-driven step runs only while the controller is running; and the
\* controller becomes running only by start().
C8_PauseStopsTimer ==
  [][/\ lastCall'.op = "pause" => ~running' /\ intervals' = {}
     /\ lastCall'.op = "timerStep" => running /\ intervals # {}
     /\ (~running /\ running') => lastCall'.op = "start"]_vars

\* pause() was called on a running controller that had iterated
C8_Witness ==
  /\ lastCall.op = "pause"
  /\ lastCall.before.running
  /\ lastCall.before.iteration > 0
  /\ intervals = {}

-----------------------------------------------------------------------------
(* C9 *)

InvalidCall(call) ==
  \/ call.op = "updateNodeCount" /\ call.arg.nodeCount < 2
  \/ IsUpdate(call, "nodeCount") /\ call.arg.nodeCount < 2
  \/ IsUpdate(call, "colonySize") /\ call.arg.colonySize < 1
  \/ IsUpdate(call, "rho") /\ (call.arg.rho <= 0 \/ call.arg.rho > RhoScale)
  \/ IsUpdate(call, "tau0") /\ call.arg.tau0 <= 0

\* C9, as claimed: a call that supplies an invalid configuration leaves the
\* parameters, the graph, the pheromone matrix, the counter and the best
\* path as they were.
C9_InvalidConfigRejected ==
  [][InvalidCall(lastCall') =>
       /\ UNCHANGED params
       /\ UNCHANGED graphVars
       /\ UNCHANGED bestVars
       /\ UNCHANGED <<pheromones, iteration>>]_vars

-----------------------------------------------------------------------------
(* C10 *)

\* C10, as claimed: under a valid configuration, once iterations have run
\* and no ant has reached the end node since the graph was generated
\* (currentBestPath is still null), the pair (bestPath, bestLength) differs
\* from the pair (null, Infinity) of a freshly generated graph.
C10_NoPathDistinguishable ==
  (/\ ValidConfig(params)
   /\ lastCall.op \in StepOps
   /\ iteration > 0
   /\ currentBestPath = Null) =>
    <<bestPath, bestLength>> # <<Null, Infinity>>

-----------------------------------------------------------------------------
(* C11 *)

\* C11: an iteration in which no ant walks to the end node (every path ends
\* elsewhere or is the single node its ant started on, or the colony is
\* empty) advances the iteration counter by one, leaves every pheromone
\* entry at its evaporated value (nothing is deposited) and leaves the
\* global-best path and length as they were.
C11_IdleIterationEvaporates ==
  (/\ RanIteration
   /\ \A k \in DOMAIN paths : ~Walked(paths[k])) =>
    /\ iteration = lastCall.before.iteration + 1
    /\ pheromones = EvaporatedFrom(lastCall.before.pheromones, params.rho)
    /\ bestPath = lastCall.before.bestPath
    /\ bestLength = lastCall.before.bestLength

\* after an iteration that found a path, an iteration whose ants all ended
\* away from the end node or never left it
C11_Witness ==
  /\ RanIteration
  /\ ValidConfig(params)
  /\ Len(paths) >= 1
  /\ \A k \in DOMAIN paths : ~Walked(paths[k])
  /\ lastCall.before.bestPath # Null
  /\ bestPath = lastCall.before.bestPath
  /\ iteration = 2

-----------------------------------------------------------------------------
(* C12 *)

\* an independent run: the program constructed with configuration p, its
\* graph generated, then k calls of step()
RECURSIVE Replay(_, _)
Replay(p, k) ==
  IF k <= 0 THEN generateGraph(declared(p)) ELSE step(Replay(p, k - 1))

\* the graph, the pheromone matrix, the best paths and lengths and the PRNG
EngineOf(s) ==
  <<s.nodes, s.distances, s.startNode, s.endNode, s.pheromones, s.bestPath,
    s.bestLength, s.currentBestPath, s.currentBestLength, s.prng>>

\* C12: determinism.  While the configuration is the one the program was
\* constructed with, the graph, the pheromone matrix, the best lengths and
\* the PRNG after N iterations are those of an independent run of N steps
\* from the same configuration, whatever calls of start, pause, reset and
\* step (manual or timer-driven) led there; and a graph just regenerated
\* under a valid configuration is the graph of an independent run with that
\* configuration.
C12_Deterministic ==
  /\ edits = 0 => EngineOf(cur) = EngineOf(Replay(params, iteration))
  /\ (Regenerated(lastCall) /\ ValidConfig(params)) =>
       EngineOf(cur) = EngineOf(Replay(params, 0))

\* a run that was reset after it had iterated, and has iterated again
C12_Witness ==
  /\ edits = 0
  /\ lastCall.op = "step"
  /\ isPaused /\ ~running
  /\ iteration = MaxBudget
  /\ bestPath # Null

-----------------------------------------------------------------------------
(* C13 *)

AtLeast(ph, v) == \A i \in DOMAIN ph : \A j \in DOMAIN ph[i] : ph[i][j] >= v

\* C13: pheromone floor.  For a reinforcement intensity Q > 0, every entry
\* of the pheromone matrix is at least tau_min after the evaporation phase
\* of a step() taken in any reachable state, and after the reinforcement
\* phase of every step() that ran an iteration.
C13_PheromoneFloor ==
  params.Q > 0 =>
    /\ AtLeast(evaporate(cur).pheromones, TauMin)
    /\ RanIteration => AtLeast(pheromones, TauMin)

\* a step under rho = 1, which evaporates every entry to zero, left the
\* entries no ant reinforced on the floor
C13_Witness ==
  /\ RanIteration
  /\ ValidConfig(params)
  /\ params.rho = RhoScale
  /\ \E i \in DOMAIN pheromones : \E j \in DOMAIN pheromones[i] :
       /\ lastCall.before.pheromones[i][j] > TauMin
       /\ pheromones[i][j] = TauMin

-----------------------------------------------------------------------------
(* C14 *)

Symmetric(ph) == \A i \in DOMAIN ph : \A j \in DOMAIN ph[i] : ph[i][j] = ph[j][i]

\* C14, as claimed: in every reachable state whose graph type is
\* undirected, tau_ij = tau_ji for all i, j.
C14_UndirectedSymmetric ==
  params.graphType = "undirected" => Symmetric(pheromones)

-----------------------------------------------------------------------------
(* C15 *)

\* the paths of the last step that end at the end node
Finishers == {k \in DOMAIN paths : paths[k][Len(paths[k])] = endNode}

\* C15: a call that does not regenerate the graph never increases the
\* global-best length, and it changes the global-best path or length only
\* if it is a step() whose iteration-best exists (a path of that step that
\* ends at the end node and is no longer than any other that does) and is
\* strictly shorter than the global best the step was called with; the
\* global best is then that iteration-best.
C15_BestMonotone ==
  (lastCall.op # "createUI" /\ ~Regenerated(lastCall)) =>
    /\ bestLength <= lastCall.before.bestLength
    /\ (<<bestPath, bestLength>> #
          <<lastCall.before.bestPath, lastCall.before.bestLength>>) =>
         /\ RanIteration
         /\ bestLength < lastCall.before.bestLength
         /\ \E k \in Finishers :
              /\ bestPath = paths[k]
              /\ bestLength = calculatePathLength(cur, paths[k])
         /\ \A k \in Finishers : bestLength <= calculatePathLength(cur, paths[k])
         /\ <<currentBestPath, currentBestLength>> = <<bestPath, bestLength>>

\* a step that found a path strictly shorter than the finite global best
\* it was called with
C15_Witness ==
  /\ RanIteration
  /\ lastCall.before.bestLength < Infinity
  /\ bestLength < lastCall.before.bestLength
  /\ bestPath # lastCall.before.bestPath
  /\ bestPath = currentBestPath

-----------------------------------------------------------------------------
(* C16 *)

\* what the last step added to entry (i, j) after evaporating it
Gain(i, j) ==
  pheromones[i][j] - evaporated(lastCall.before.pheromones[i][j], params.rho)

HasEdge(path, u, v) ==
  \E k \in 1..(Len(path) - 1) : path[k] = u /\ path[k + 1] = v

\* a deposit along path reaches entry (i, j)
Marks(path, i, j) ==
  \/ HasEdge(path, i, j)
  \/ params.graphType = "undirected" /\ HasEdge(path, j, i)

\* Q / length of the path
DeltaTau(path) == (params.Q * TauScale) \div calculatePathLength(cur, path)

\* the deposits on entry (i, j) of the ants k, k + 1, ... whose path ends at
\* the end node, the ant `except` left out
RECURSIVE DepositsOn(_, _, _, _)
DepositsOn(k, i, j, except) ==
  IF k > Len(paths) THEN 0
  ELSE (IF k # except /\ k \in Finishers /\ Marks(paths[k], i, j)
        THEN DeltaTau(paths[k]) ELSE 0) + DepositsOn(k + 1, i, j, except)

-----------------------------------------------------------------------------
(* C17 *)

Distinct(path) ==
  \A k, m \in DOMAIN path : k # m => path[k] # path[m]

\* C17, as claimed: under a valid configuration a recorded global-best path
\* is a sequence of distinct node indices that starts at the designated
\* start node and ends at the designated end node, whatever the
\* start-distribution policy.
C17_BestConnectsStartEnd ==
  (ValidConfig(params) /\ bestPath # Null) =>
    /\ Distinct(bestPath)
    /\ \A k \in DOMAIN bestPath : bestPath[k] \in Indices(cur)
    /\ bestPath[1] = startNode
    /\ bestPath[Len(bestPath)] = endNode

-----------------------------------------------------------------------------
(* C18 *)

\* the state the last call was made in, as far as a step reads it: the
\* graph and the parameters are those of now, a step changing neither
CalledIn ==
  [cur EXCEPT !.pheromones = lastCall.before.pheromones,
              !.prng = lastCall.before.prng,
              !.iteration = lastCall.before.iteration]

\* C18: the paths of a step are those the colony builds, ant after ant,
\* against the pheromone matrix the step was called with; and the matrix
\* after the step is that matrix evaporated once, with the deposits of all
\* the paths then added to the evaporated values.
C18_EvaporateOnceBetween ==
  RanIteration =>
    LET built == colony(CalledIn, 0, CalledIn.prng, << >>)
    IN  /\ paths = built.paths
        /\ prng = built.seed
        /\ pheromones =
             depositAll(cur, paths, 1,
                        EvaporatedFrom(lastCall.before.pheromones, params.rho))

\* a second iteration, called on a matrix the first had made uneven, in
\* which both ants walked to the end node and deposited
C18_Witness ==
  /\ RanIteration
  /\ iteration = 2
  /\ ~AllAt(lastCall.before.pheromones, lastCall.before.pheromones[0][0])
  /\ Len(paths) = 2
  /\ \A k \in DOMAIN paths : Walked(paths[k])

-----------------------------------------------------------------------------
(* C19 *)

\* C19, as claimed: under a valid configuration, after a step the
\* iteration-best is that of the step's own paths: if one of them ends at
\* the end node with a finite length, a shortest such path and its length;
\* otherwise an infinite length, and no path when none ends at the end node.
C19_IterationBestOfThisStep ==
  (ValidConfig(params) /\ RanIteration) =>
    IF \E k \in Finishers : calculatePathLength(cur, paths[k]) < Infinity
    THEN \E k \in Finishers :
           /\ currentBestPath = paths[k]
           /\ currentBestLength = calculatePathLength(cur, paths[k])
           /\ \A m \in Finishers :
                currentBestLength <= calculatePathLength(cur, paths[m])
    ELSE /\ currentBestLength = Infinity
         /\ Finishers = {} => currentBestPath = Null

-----------------------------------------------------------------------------
(* C20 *)

\* C20: for every ant k whose path walked to the end node, and every
\* consecutive edge (u, v) of that path, the step added Q / length of that
\* path to tau_uv, on top of what the other ants deposited there; to
\* tau_vu it added the same amount when the graph is undirected and nothing
\* when it is directed.
C20_EveryFinisherDeposits ==
  RanIteration =>
    \A k \in DOMAIN paths : Walked(paths[k]) =>
      \A e \in 1..(Len(paths[k]) - 1) :
        LET u == paths[k][e]
            v == paths[k][e + 1]
        IN  /\ Gain(u, v) = DeltaTau(paths[k]) + DepositsOn(1, u, v, k)
            /\ Gain(v, u) =
                 (IF params.graphType = "undirected"
                  THEN DeltaTau(paths[k]) ELSE 0) + DepositsOn(1, v, u, k)

\* a step on a directed graph in which two ants walked to the end node by
\* different paths and an edge one of them took gained, its reverse not
C20_Witness ==
  /\ RanIteration
  /\ params.graphType = "directed"
  /\ \E k, m \in DOMAIN paths :
       /\ Walked(paths[k]) /\ Walked(paths[m]) /\ paths[k] # paths[m]
       /\ \E e \in 1..(Len(paths[k]) - 1) :
            /\ Gain(paths[k][e], paths[k][e + 1]) > 0
            /\ Gain(paths[k][e + 1], paths[k][e]) = 0

-----------------------------------------------------------------------------
(* C21 *)

\* the last call generated the graph
Generated == lastCall.op = "createUI" \/ Regenerated(lastCall)

\* the pair (i, j) comes before the pair (k, m) in the row-major scan
ScannedBefore(i, j, k, m) == i < k \/ (i = k /\ j < m)

\* C21: after every graph generation with nodeCount >= 2, startNode <
\* endNode are nodes of the new graph, no pair of its nodes is farther apart
\* than they are, and every pair scanned before them is strictly closer;
\* the pair of the previous graph plays no part.
C21_FarthestPairFirst ==
  (Generated /\ params.nodeCount >= 2) =>
    /\ startNode \in Indices(cur) /\ endNode \in Indices(cur)
    /\ startNode < endNode
    /\ \A i, j \in Indices(cur) :
         i < j =>
           /\ dist(nodes[i], nodes[j]) <= dist(nodes[startNode], nodes[endNode])
           /\ ScannedBefore(i, j, startNode, endNode) =>
                dist(nodes[i], nodes[j]) < dist(nodes[startNode], nodes[endNode])

\* a three-node graph generated for a new seed, whose farthest pair is not
\* the pair of the graph it replaced
C21_Witness ==
  /\ lastCall.op = "newGraph"
  /\ params.nodeCount = 3
  /\ params.seed # DefaultSeed
  /\ <<startNode, endNode>> #
       <<generateGraph(declared(initialParams(3, MaxColony, MaxBudget))).startNode,
         generateGraph(declared(initialParams(3, MaxColony, MaxBudget))).endNode>>

-----------------------------------------------------------------------------
(* C22 *)

\* C22, as claimed: after graph generation distance(i, i) = 0 for every i,
\* and the distance matrix is symmetric if and only if the graph is
\* undirected.
C22_SymmetricIffUndirected ==
  Generated =>
    /\ \A i \in DOMAIN distances : distances[i][i] = 0
    /\ Symmetric(distances) <=> params.graphType = "undirected"

\* C22, amended: after graph generation distance(i, i) = 0 for every i and
\* distance(i, j) = distance(j, i) = the Euclidean distance of nodes i and
\* j for all i, j, whether the graph is undirected or directed.
C22_DistanceEuclidean ==
  Generated =>
    /\ DOMAIN distances = Indices(cur)
    /\ \A i \in DOMAIN distances :
         /\ DOMAIN distances[i] = Indices(cur)
         /\ distances[i][i] = 0
         /\ \A j \in DOMAIN distances[i] :
              /\ distances[i][j] = distances[j][i]
              /\ i # j => distances[i][j] = dist(nodes[i], nodes[j])

\* a directed graph of three nodes was generated after the run had iterated
C22_Witness ==
  /\ lastCall.op = "reset"
  /\ lastCall.before.iteration > 0
  /\ params.graphType = "directed"
  /\ params.nodeCount = 3
  /\ distances[0][1] > 0 /\ distances[1][2] > 0

-----------------------------------------------------------------------------
(* C23 *)

\* path is what constructPath may return for the start node from
WellFormed(path, from) ==
  /\ Len(path) >= 1 /\ Len(path) <= params.nodeCount
  /\ path[1] = from
  /\ Distinct(path)
  /\ \A k \in DOMAIN path : path[k] \in Indices(cur)
  /\ \A k \in 1..(Len(path) - 1) : path[k] # endNode

\* C23: in every reachable state, constructPath called for any node of the
\* graph returns, without a TypeError, after at most N - 1 selections (a
\* path of at most N nodes) a sequence that begins with that node, lists
\* pairwise distinct indices of 0..N-1 and has the end node nowhere but in
\* its last place; and so are the paths the last step built under a valid
\* configuration.
C23_PathWellFormed ==
  /\ \A from \in Indices(cur) :
       LET r == constructPath(cur, from, prng)
       IN  ~r.threw /\ WellFormed(r.path, from)
  /\ (RanIteration /\ ValidConfig(params)) =>
       \A k \in DOMAIN paths : WellFormed(paths[k], paths[k][1])

\* an ant of a three-node graph made the two selections there are to make
C23_Witness ==
  /\ RanIteration
  /\ ValidConfig(params)
  /\ params.nodeCount = 3
  /\ \E k \in DOMAIN paths :
       /\ Len(paths[k]) = 3
       /\ paths[k][3] = endNode
       /\ paths[k][1] # startNode

-----------------------------------------------------------------------------
(* C24 *)

\* the ant of this path stood on a node other than the end node, with nodes
\* left to visit, and no unvisited node had a finite positive weight
Degenerate(path) ==
  LET current == path[Len(path)]
  IN  /\ current # endNode
      /\ current \in Indices(cur)
      /\ Len(path) < params.nodeCount
      /\ candidates(CalledIn, path, current, 0) = << >>

\* C24: a step within its budget completes -- one path per ant, every
\* diagonal entry evaporated once, the counter advanced by one -- also when
\* an ant finds no unvisited node of finite positive weight; the path of
\* such an ant ends where it stood, deposits on no entry, and is neither the
\* iteration-best nor the global best.
C24_DegenerateAntUnsuccessful ==
  RanIteration =>
    /\ iteration = lastCall.before.iteration + 1
    /\ Len(paths) = params.colonySize
    /\ \A i \in DOMAIN pheromones :
         pheromones[i][i] = evaporated(lastCall.before.pheromones[i][i], params.rho)
    /\ \A k \in DOMAIN paths :
         Degenerate(paths[k]) =>
           /\ k \notin Finishers
           /\ \A i \in DOMAIN pheromones : \A j \in DOMAIN pheromones[i] :
                Gain(i, j) = DepositsOn(1, i, j, k)
           /\ currentBestPath # paths[k]
           /\ bestPath # paths[k]

\* a step of two ants under alpha = NaN: the first found no candidate on its
\* start node, and the second was constructed all the same
C24_Witness ==
  /\ RanIteration
  /\ params.alpha = NotANumber
  /\ params.nodeCount >= 2
  /\ Len(paths) = 2
  /\ Degenerate(paths[1])
  /\ iteration = lastCall.before.iteration + 1
  /\ \E i \in DOMAIN pheromones : \E j \in DOMAIN pheromones[i] :
       i # j /\ pheromones[i][j] < lastCall.before.pheromones[i][j]

-----------------------------------------------------------------------------
(* C25 *)

\* C25, as claimed: every value random() returns is in [0, 1), that is, the
\* seed it leaves is in 0..233279, for every seed a configuration carries
\* and after any number of draws.
C25_DrawInUnitInterval ==
  lastCall.op = "random" => prng >= 0 /\ prng < PrngModulus

\* the part of C25 that holds: the source after k draws is a function of the
\* seed it was created with and of k alone, whatever draws and re-creations
\* came before
C25_Reproducible ==
  prng = Draws(params.seed, lastCall.arg)

-----------------------------------------------------------------------------
(* C26 *)

\* C26: in every reachable state the controller is running if and only if
\* exactly one interval timer is active; no call leaves two timers active,
\* or a timer active while the controller is not running; and the active
\* timer is the one whose handle the controller holds.
C26_RunningIffOneTimer ==
  /\ running <=> Cardinality(intervals) = 1
  /\ Cardinality(intervals) <= 1
  /\ ~running => intervals = {} /\ timer = NoTimer
  /\ running => intervals = {timer} /\ timer # NoTimer

\* updateParams({speed}) restarted the timer of a running controller that
\* had iterated: one timer is active
C26_Witness ==
  /\ IsUpdate(lastCall, "speed")
  /\ lastCall.before.running
  /\ running
  /\ Cardinality(intervals) = 1
  /\ lastCall.before.iteration > 0

-----------------------------------------------------------------------------
(* C27 *)

\* the call lowers maxIterations below the count reached
LowersBudget(call, count) ==
  IsUpdate(call, "maxIterations") /\ call.arg.maxIterations < count

\* C27: a call that does not lower maxIterations below the count reached
\* keeps iteration <= maxIterations if it held before the call; and a
\* step() called with iteration >= maxIterations changes no pheromone
\* entry, none of the best paths and lengths, and not the counter.
C27_BudgetBoundsIteration ==
  [][/\ (iteration <= params.maxIterations /\ ~LowersBudget(lastCall', iteration))
          => iteration' <= params'.maxIterations
     /\ (lastCall'.op \in StepOps /\ iteration >= params.maxIterations)
          => /\ UNCHANGED <<pheromones, iteration>>
             /\ UNCHANGED bestVars]_vars

\* the timer called step() with the budget used up, after an iteration that
\* had deposited
C27_Witness ==
  /\ lastCall.op = "timerStep"
  /\ lastCall.before.running
  /\ lastCall.before.iteration = params.maxIterations
  /\ iteration = params.maxIterations
  /\ bestPath # Null

-----------------------------------------------------------------------------
(* C28 *)

\* the run has stopped itself: not running, the timer cleared
Stopped == ~running /\ intervals = {} /\ timer = NoTimer

\* C28, as claimed: once start() has been called and no further call is
\* made, the timer-driven run eventually reaches iteration = maxIterations
\* and stops itself.
C28_RunReachesBudget ==
  running ~> (Stopped /\ iteration = params.maxIterations)

\* C28, amended: once start() has been called and no further call is made,
\* the timer-driven run eventually stops itself; if iteration <=
\* maxIterations when it was started, it stops with iteration =
\* maxIterations, and otherwise with the iteration count it was started
\* with.
C28_RunStopsItself ==
  /\ running ~> Stopped
  /\ (running /\ iteration <= params.maxIterations)
       ~> (Stopped /\ iteration = params.maxIterations)
  /\ [][(running /\ iteration > params.maxIterations) =>
          (Stopped' /\ UNCHANGED iteration)]_vars

\* the timer found the budget used up, after the iterations it had run
\* itself, and stopped the run
C28_Witness ==
  /\ lastCall.op = "timerStep"
  /\ lastCall.before.running
  /\ Stopped
  /\ isPaused
  /\ iteration = params.maxIterations
  /\ iteration > 0

-----------------------------------------------------------------------------
(* C29 *)

\* C29: in every reachable state bestPath is null exactly when bestLength
\* is infinite; a bestPath that is not null lists indices of the current
\* graph, ends at the current end node, and bestLength is the sum of the
\* current distances along it.
C29_BestPathConsistent ==
  /\ bestPath = Null <=> bestLength = Infinity
  /\ bestPath # Null =>
       /\ \A k \in DOMAIN bestPath :
            bestPath[k] >= 0 /\ bestPath[k] < params.nodeCount
       /\ bestPath[Len(bestPath)] = endNode
       /\ bestLength = sumEdges(cur, bestPath, 1)
       /\ bestLength = calculatePathLength(cur, bestPath)

\* a best path of three nodes outlived a configuration call
C29_Witness ==
  /\ lastCall.op = "updateParams"
  /\ lastCall.before.bestPath # Null
  /\ bestPath = lastCall.before.bestPath
  /\ Len(bestPath) = 3
  /\ bestLength < Infinity

-----------------------------------------------------------------------------
(* C30 *)

\* C30: an ant of a step whose start node is the end node has the path
\* <<endNode>>, of infinite length; that path is neither the iteration-best
\* nor the global best after the step, and no pheromone entry received a
\* deposit from it.
C30_StartOnEndNode ==
  RanIteration =>
    \A k \in DOMAIN paths :
      paths[k][1] = endNode =>
        /\ paths[k] = <<endNode>>
        /\ calculatePathLength(cur, paths[k]) = Infinity
        /\ ~deposits(cur, paths[k])
        /\ currentBestPath # paths[k]
        /\ bestPath # paths[k]
        /\ iterationBest(cur, paths, 1, [idx |-> 0, length |-> Infinity]).idx # k
        /\ \A i \in DOMAIN pheromones : \A j \in DOMAIN pheromones[i] :
             Gain(i, j) = DepositsOn(1, i, j, k)

\* under the uniform start policy one ant of a step was started on the end
\* node and another walked there and deposited
C30_Witness ==
  /\ RanIteration
  /\ ValidConfig(params)
  /\ params.startDist = "uniform"
  /\ \E k, m \in DOMAIN paths :
       /\ paths[k] = <<endNode>>
       /\ Walked(paths[m])
       /\ currentBestPath = paths[m]
       /\ \E i \in DOMAIN pheromones : \E j \in DOMAIN pheromones[i] : Gain(i, j) > 0

====
